---- MODULE Spec2Model ----
(***************************************************************************)
(* mdit-obsidian: the wikilink parser, the link resolver, the single-pass  *)
(* source preprocessor and the wikilink inline rule, as a state machine.   *)
(*                                                                         *)
(* A JavaScript string is a TLA+ string; positions are JavaScript's        *)
(* 0-based indexes.  An optional string field (anchor, size, basePath)     *)
(* that the code only ever tests for truthiness is "" when it is           *)
(* undefined.                                                              *)
(***************************************************************************)
EXTENDS Integers, Sequences, FiniteSets, TLC

VARIABLES
    options,     \* the options object shared by every call: linkmap, basePath
    pc,          \* which call is in progress or has just returned
    path,        \* resolveLinkPath: its path argument
    resolution,  \* resolveLinkPath: the LinkResolution it returned
    text,        \* obsidianPreprocessor: its text argument
    i,           \* obsidianPreprocessor: the scan cursor
    result,      \* obsidianPreprocessor: the text built so far / returned
    embed,       \* obsidianPreprocessor: the locals of the last embed iteration
    passed,      \* obsidianPreprocessor: the `[[...]]` spans the scan has copied
    src,         \* wikilink rule: state.src
    start,       \* wikilink rule: its local start, state.pos on entry
    pos,         \* wikilink rule: state.pos
    silent,      \* wikilink rule: its silent argument
    tokens,      \* wikilink rule: the tokens pushed on the state
    ret,         \* wikilink rule: its return value
    previous,    \* the caller's earlier obsidianPreprocessor call: <<text, returned>>
    rawText,     \* parseWikiLink: its raw argument
    linkInfo,    \* parseWikiLink: the WikiLinkInfo it returned
    blockToken,  \* tag rule: the block token of state.tokens it is visiting
    child,       \* tag rule: the position of children.forEach, from 1
    newChildren, \* tag rule: the children built so far
    lastIndex,   \* tag rule: its local lastIndex
    hasMatch,    \* tag rule: its local hasMatch
    patternLastIndex, \* TAG_PATTERN.lastIndex, the scan position of the pattern
    linkOpen,    \* embed plugin: the class attribute of the link_open token rendered
    renders,     \* embed plugin: how many times the token has been rendered
    coreRuler,   \* the engine: the names of md.core.ruler, in order
    inlineRuler, \* the engine: the names of md.inline.ruler, in order
    linkOpenRule,\* the engine: the name of md.renderer.rules.link_open
    used,        \* the engine: the plugins given to md.use, in order
    stage,       \* a document: the position in the core chain, from 1
    trace        \* a document: the rules run on it so far, in order

vars == <<options, pc, path, resolution, text, i, result, embed, passed,
          src, start, pos, silent, tokens, ret, previous, rawText, linkInfo,
          blockToken, child, newChildren, lastIndex, hasMatch, patternLastIndex,
          linkOpen, renders, coreRuler, inlineRuler, linkOpenRule, used, stage, trace>>

-----------------------------------------------------------------------------
(* Bounds of the model: how many pieces an enumerated input is made of.    *)

MaxPathPieces == 3

MaxContentPieces == 3

MaxRawPieces == 3

MaxTagPieces == 5

MaxRenders == 3

-----------------------------------------------------------------------------
(* JavaScript string primitives.                                           *)

Min(a, b) == IF a < b THEN a ELSE b

Max(a, b) == IF a > b THEN a ELSE b

\* s.slice(a, b) for 0-based a, b (clamped to the string)
Slice(s, a, b) == SubSeq(s, Max(a, 0) + 1, Min(b, Len(s)))

\* s[k]
CharAt(s, k) == SubSeq(s, Max(k, 0) + 1, Min(k + 1, Len(s)))

\* s.slice(a)
SliceFrom(s, a) == SubSeq(s, Max(a, 0) + 1, Len(s))

StartsWith(s, p) == SubSeq(s, 1, Min(Len(p), Len(s))) = p

EndsWith(s, p) == Len(p) <= Len(s) /\ SubSeq(s, Len(s) - Len(p) + 1, Len(s)) = p

\* the least index of a set of indexes, -1 when there is none
firstOf(hits) == IF hits = {} THEN -1 ELSE CHOOSE k \in hits : \A h \in hits : k <= h

\* the greatest index of a set of indexes, -1 when there is none
lastOf(hits) == IF hits = {} THEN -1 ELSE CHOOSE k \in hits : \A h \in hits : k >= h

\* s.indexOf(sub, from): the first index >= from where sub occurs, else -1
IndexOf(s, sub, from) ==
    firstOf({k \in from..(Len(s) - Len(sub)) : SubSeq(s, k + 1, k + Len(sub)) = sub})

\* s.lastIndexOf(sub)
LastIndexOf(s, sub) ==
    lastOf({k \in 0..(Len(s) - Len(sub)) : SubSeq(s, k + 1, k + Len(sub)) = sub})

\* s.split(sep) for a non-empty separator, k the first index of sep in s
RECURSIVE splitAt(_, _, _)
splitAt(s, sep, k) ==
    IF k = -1 THEN <<s>>
    ELSE <<SubSeq(s, 1, k)>>
         \o splitAt(SubSeq(s, k + Len(sep) + 1, Len(s)), sep,
                    IndexOf(SubSeq(s, k + Len(sep) + 1, Len(s)), sep, 0))

Split(s, sep) == splitAt(s, sep, IndexOf(s, sep, 0))

\* parts.join(sep)
RECURSIVE Join(_, _)
Join(parts, sep) ==
    IF Len(parts) = 0 THEN ""
    ELSE IF Len(parts) = 1 THEN parts[1]
    ELSE parts[1] \o sep \o Join(Tail(parts), sep)

\* parts.filter(Boolean): the non-empty strings, in order
FilterNonEmpty(parts) == SelectSeq(parts, LAMBDA p : p # "")

-----------------------------------------------------------------------------
(* The link index: Record<string, string | string[]>.                      *)
(* A property value read from it is [kind, items]: a string value has one  *)
(* item, an array has its elements, and a missing property is undefined.   *)
(* The index is a plain object literal, so a name that Object.prototype    *)
(* defines is found on the prototype chain when the index has no own       *)
(* property of that name; what is found there is a function object.        *)

Undefined == [kind |-> "undefined", items |-> <<>>]

Single(url) == [kind |-> "string", items |-> <<url>>]

Candidates(urls) == [kind |-> "array", items |-> urls]

\* String(Object.prototype.constructor): the inherited value, which is no string
NativeFunction == "function Object() { [native code] }"

ObjectPrototypeKeys == {"constructor"}

\* linkmap[key]
Lookup(linkmap, key) ==
    IF key \in DOMAIN linkmap THEN linkmap[key]
    ELSE IF key \in ObjectPrototypeKeys
         THEN [kind |-> "function", items |-> <<NativeFunction>>]
         ELSE Undefined

\* if (value)
Truthy(v) ==
    \/ v.kind \in {"array", "function"}
    \/ v.kind = "string" /\ v.items[1] # ""

\* Array.isArray(value)
IsArray(v) == v.kind = "array"

-----------------------------------------------------------------------------
(* utils/linkResolver: resolveLinkPath                                     *)

\* path.startsWith('/') ? path : '/' + path
normalizedOf(p) == IF StartsWith(p, "/") THEN p ELSE "/" \o p

\* normalized.startsWith('/') ? normalized.slice(1) : normalized
strippedOf(normalized) ==
    IF StartsWith(normalized, "/") THEN SliceFrom(normalized, 1) ELSE normalized

\* a loop that does not return at its first match: the last matching candidate
lastSuffixMatch(candidates, normalized) ==
    lastOf({k \in 1..Len(candidates) :
               \/ EndsWith(candidates[k], normalized)
               \/ EndsWith(candidates[k], strippedOf(normalized))})

\* the for loop over the candidates: the index of the first candidate that ends
\* with the normalized path or with it less its leading "/", -1 when none does
firstSuffixMatch(candidates, normalized) ==
    firstOf({k \in 1..Len(candidates) :
                \/ EndsWith(candidates[k], normalized)
                \/ EndsWith(candidates[k], strippedOf(normalized))})

\* an exact match that calls every list ambiguous, whatever its length
exactMatchAnyList(exact) ==
    [resolved    |-> exact.items[1],
     candidates  |-> exact.items,
     isAmbiguous |-> IsArray(exact)]

\* step 1, the exact key match
exactMatch(exact) ==
    [resolved    |-> exact.items[1],
     candidates  |-> exact.items,
     isAmbiguous |-> IsArray(exact) /\ Len(exact.items) > 1]

\* the candidate the loop returns, found at index k, or the first one
suffixMatch(candidates, k) ==
    [resolved    |-> IF k # -1 THEN candidates[k] ELSE candidates[1],
     candidates  |-> candidates,
     isAmbiguous |-> TRUE]

\* step 2, the match of the last path segment
nameMatch(p, candidates) ==
    IF Len(candidates) > 1
    THEN suffixMatch(candidates, firstSuffixMatch(candidates, normalizedOf(p)))
    ELSE [resolved |-> candidates[1], candidates |-> candidates, isAmbiguous |-> FALSE]

\* parts.pop() || path
lastOr(parts, p) == IF parts[Len(parts)] # "" THEN parts[Len(parts)] ELSE p

\* path.split('/').pop() || path
lastSegmentOf(p) == lastOr(Split(p, "/"), p)

\* the two steps in the other order: the last segment's entry before the path's
resolveByNameFirst(p, exact, byName) ==
    IF Truthy(byName) THEN nameMatch(p, byName.items)
    ELSE IF Truthy(exact) THEN exactMatch(exact)
    ELSE [resolved |-> p, candidates |-> <<>>, isAmbiguous |-> FALSE]

\* a fallback that returns no path at all when nothing matched
resolveToNothing(p, exact, byName) ==
    IF Truthy(exact) THEN exactMatch(exact)
    ELSE IF Truthy(byName) THEN nameMatch(p, byName.items)
    ELSE [resolved |-> "", candidates |-> <<>>, isAmbiguous |-> FALSE]

\* the steps of resolveLinkPath on the two values it reads from the index
resolveWith(p, exact, byName) ==
    IF Truthy(exact) THEN exactMatch(exact)
    ELSE IF Truthy(byName) THEN nameMatch(p, byName.items)
    ELSE [resolved |-> p, candidates |-> <<>>, isAmbiguous |-> FALSE]

resolveLinkPath(p, linkmap) ==
    resolveWith(p, Lookup(linkmap, p), Lookup(linkmap, lastSegmentOf(p)))

-----------------------------------------------------------------------------
(* utils/parseWikiLink: parseWikiLink                                      *)

\* the white space String.prototype.trim and the pattern \s know of the model's characters
WhiteSpace == {" "}

Digits == {"0", "1", "2", "3", "4", "5", "6", "7", "8", "9"}

\* the lower-case form of each upper-case letter
LowerCaseOf ==
    ("A" :> "a") @@ ("B" :> "b") @@ ("C" :> "c") @@ ("D" :> "d") @@ ("E" :> "e")
 @@ ("F" :> "f") @@ ("G" :> "g") @@ ("H" :> "h") @@ ("I" :> "i") @@ ("J" :> "j")
 @@ ("K" :> "k") @@ ("L" :> "l") @@ ("M" :> "m") @@ ("N" :> "n") @@ ("O" :> "o")
 @@ ("P" :> "p") @@ ("Q" :> "q") @@ ("R" :> "r") @@ ("S" :> "s") @@ ("T" :> "t")
 @@ ("U" :> "u") @@ ("V" :> "v") @@ ("W" :> "w") @@ ("X" :> "x") @@ ("Y" :> "y")
 @@ ("Z" :> "z")

\* s folded to lower case, as a pattern's i flag compares it
RECURSIVE toLowerCase(_)
toLowerCase(s) ==
    IF s = "" THEN ""
    ELSE (IF Head(s) \in DOMAIN LowerCaseOf THEN LowerCaseOf[Head(s)] ELSE Head(s))
         \o toLowerCase(Tail(s))

RECURSIVE trimStart(_)
trimStart(s) ==
    IF s # "" /\ Head(s) \in WhiteSpace THEN trimStart(Tail(s)) ELSE s

RECURSIVE trimEnd(_)
trimEnd(s) ==
    IF s # "" /\ CharAt(s, Len(s) - 1) \in WhiteSpace
    THEN trimEnd(Slice(s, 0, Len(s) - 1)) ELSE s

\* s.trim()
trim(s) == trimEnd(trimStart(s))

\* \d+ matches the whole of s
isDigits(s) == s # "" /\ \A k \in 0..(Len(s) - 1) : CharAt(s, k) \in Digits

\* a matchSizeAt that lets the height after the "x" be missing or anything
matchSizeLoose(s, x) ==
    IF isDigits(s)
    THEN [matched |-> TRUE, width |-> s, height |-> ""]
    ELSE IF x # -1 /\ isDigits(Slice(s, 0, x))
    THEN [matched |-> TRUE, width |-> Slice(s, 0, x), height |-> SliceFrom(s, x + 1)]
    ELSE [matched |-> FALSE, width |-> "", height |-> ""]

\* s.match(/^(\d+)(x(\d+))?$/) for s whose first "x" is at index x:
\* [matched, width, height], height "" when group 3 is unset
matchSizeAt(s, x) ==
    IF isDigits(s)
    THEN [matched |-> TRUE, width |-> s, height |-> ""]
    ELSE IF x # -1 /\ isDigits(Slice(s, 0, x)) /\ isDigits(SliceFrom(s, x + 1))
    THEN [matched |-> TRUE, width |-> Slice(s, 0, x), height |-> SliceFrom(s, x + 1)]
    ELSE [matched |-> FALSE, width |-> "", height |-> ""]

matchSize(s) == matchSizeAt(s, IndexOf(s, "x", 0))

\* displayPart.match(sizePattern), sizePattern = /^\s*(\d+)(x(\d+))?\s*$/
sizePattern(s) == matchSize(trim(s))

\* a stripMdExtension that knows the lower-case suffix only
stripMdLowerCase(p) ==
    IF SliceFrom(p, Len(p) - 3) = ".md" THEN Slice(p, 0, Len(p) - 3) ELSE p

\* path.replace(/\.md$/i, '')
stripMdExtension(p) ==
    IF toLowerCase(SliceFrom(p, Len(p) - 3)) = ".md" THEN Slice(p, 0, Len(p) - 3) ELSE p

\* pipeIndex === -1 ? inner : inner.slice(0, pipeIndex)
pathPartOf(inner, pipeIndex) ==
    IF pipeIndex = -1 THEN inner ELSE Slice(inner, 0, pipeIndex)

\* pipeIndex === -1 ? '' : inner.slice(pipeIndex + 1).trim()
displayPartOf(inner, pipeIndex) ==
    IF pipeIndex = -1 THEN "" ELSE trim(SliceFrom(inner, pipeIndex + 1))

\* hashIndex === -1 ? pathPart : pathPart.slice(0, hashIndex)
pathWithoutAnchorOf(pathPart, hashIndex) ==
    IF hashIndex = -1 THEN pathPart ELSE Slice(pathPart, 0, hashIndex)

\* an anchorOf that takes the text after the last `#`
anchorAfterLastHash(pathPart, hashIndex) ==
    IF hashIndex = -1 THEN "" ELSE SliceFrom(pathPart, LastIndexOf(pathPart, "#") + 1)

\* hashIndex === -1 ? undefined : pathPart.slice(hashIndex + 1)
anchorOf(pathPart, hashIndex) ==
    IF hashIndex = -1 THEN "" ELSE SliceFrom(pathPart, hashIndex + 1)

\* height ? `${width}x${height}` : `${width}`, when the display part is a size
sizeOf(sizeMatch) ==
    IF ~sizeMatch.matched THEN ""
    ELSE IF sizeMatch.height # "" THEN sizeMatch.width \o "x" \o sizeMatch.height
    ELSE sizeMatch.width

\* the object parseWikiLink returns
wikiLinkInfo(normalizedPath, displayPart, anchor, sizeMatch) ==
    [path    |-> normalizedPath,
     display |-> IF sizeMatch.matched THEN normalizedPath
                 ELSE IF displayPart # "" THEN displayPart ELSE normalizedPath,
     anchor  |-> trim(anchor),
     size    |-> sizeOf(sizeMatch)]

\* the split at the first `#`
splitAnchor(pathPart, displayPart, hashIndex) ==
    wikiLinkInfo(stripMdExtension(trim(pathWithoutAnchorOf(pathPart, hashIndex))),
                 displayPart, anchorOf(pathPart, hashIndex), sizePattern(displayPart))

\* the split at the last `|`
splitDisplay(inner, pipeIndex) ==
    splitAnchor(pathPartOf(inner, pipeIndex), displayPartOf(inner, pipeIndex),
                IndexOf(pathPartOf(inner, pipeIndex), "#", 0))

parseWikiLink(raw) == splitDisplay(trim(raw), LastIndexOf(trim(raw), "|"))

-----------------------------------------------------------------------------
(* encodeURIComponent, normalizeBase and encodePath (the preprocessor and  *)
(* the wikilink plugin each define the same two helpers).                  *)

\* the ASCII characters encodeURIComponent escapes, with their escapes; every
\* other character of the model is a letter, a digit or one of - _ . ! ~ * ' ( )
PercentCodes ==
    (" " :> "%20") @@ ("#" :> "%23") @@ ("$" :> "%24") @@ ("%" :> "%25")
 @@ ("&" :> "%26") @@ ("+" :> "%2B") @@ ("," :> "%2C") @@ ("/" :> "%2F")
 @@ (":" :> "%3A") @@ (";" :> "%3B") @@ ("<" :> "%3C") @@ ("=" :> "%3D")
 @@ (">" :> "%3E") @@ ("?" :> "%3F") @@ ("@" :> "%40") @@ ("[" :> "%5B")
 @@ ("]" :> "%5D") @@ ("^" :> "%5E") @@ ("{" :> "%7B") @@ ("|" :> "%7C")
 @@ ("}" :> "%7D")

RECURSIVE encodeURIComponent(_)
encodeURIComponent(s) ==
    IF s = "" THEN ""
    ELSE (IF Head(s) \in DOMAIN PercentCodes THEN PercentCodes[Head(s)] ELSE Head(s))
         \o encodeURIComponent(Tail(s))

\* parts.map((segment) => encodeURIComponent(segment))
encodeSegments(parts) == [k \in 1..Len(parts) |-> encodeURIComponent(parts[k])]

encodePath(p) ==
    Join(encodeSegments(FilterNonEmpty(Split(p, "/"))), "/")

DefaultBase == "/attachments"

normalizeBase(basePath) ==
    LET base == IF basePath # "" THEN basePath ELSE DefaultBase
    IN  IF EndsWith(base, "/") THEN Slice(base, 0, Len(base) - 1) ELSE base

\* /^https?:\/\//i.test(s)
isHttpUrl(s) ==
    \/ toLowerCase(Slice(s, 0, 7)) = "http://"
    \/ toLowerCase(Slice(s, 0, 8)) = "https://"

\* a fallback that leaves the base path out
finalPathWithoutBase(p, opts, res) ==
    LET found  == opts.hasLinkmap /\ Len(res.candidates) > 0
        target == IF found THEN res.resolved ELSE ""
    IN  [found    |-> found,
         isString |-> target # NativeFunction,
         value    |-> IF target # "" THEN target ELSE p]

\* the target both resolvePath functions look up: `target || base/path`, and
\* whether that value is a string (a value inherited from Object.prototype is not)
finalPathFrom(p, opts, res) ==
    LET found  == opts.hasLinkmap /\ Len(res.candidates) > 0
        target == IF found THEN res.resolved ELSE ""
    IN  [found    |-> found,
         isString |-> target # NativeFunction,
         value    |-> IF target # "" THEN target
                      ELSE normalizeBase(opts.basePath) \o "/" \o p]

finalPathOf(p, opts) == finalPathFrom(p, opts, resolveLinkPath(p, opts.linkmap))

\* finalPath.startsWith('/') ? finalPath.slice(1) : finalPath
withoutLeadingSlash(fp) == IF StartsWith(fp, "/") THEN SliceFrom(fp, 1) ELSE fp

\* an http(s) URL treated like any other scheme: its remainder is encoded
encodeFinalPathOfAnyScheme(finalPath, parts) ==
    IF ~finalPath.isString THEN [threw |-> TRUE, value |-> ""]
    ELSE IF Len(parts) > 1
    THEN [threw |-> FALSE,
          value |-> parts[1] \o "://" \o encodePath(Join(Tail(parts), "://"))]
    ELSE [threw |-> FALSE, value |-> encodePath(withoutLeadingSlash(finalPath.value))]

\* the branches of preprocessor.ts resolvePath on finalPath and finalPath.split('://')
encodeFinalPath(finalPath, parts) ==
    IF ~finalPath.isString THEN [threw |-> TRUE, value |-> ""]
    ELSE IF isHttpUrl(finalPath.value) THEN [threw |-> FALSE, value |-> finalPath.value]
    ELSE IF Len(parts) > 1
    THEN [threw |-> FALSE,
          value |-> parts[1] \o "://" \o encodePath(Join(Tail(parts), "://"))]
    ELSE [threw |-> FALSE, value |-> encodePath(withoutLeadingSlash(finalPath.value))]

splitScheme(finalPath) == encodeFinalPath(finalPath, Split(finalPath.value, "://"))

\* preprocessor.ts resolvePath: [threw, value]; finalPath.split throws a
\* TypeError when finalPath is no string
resolvePath(p, opts) == splitScheme(finalPathOf(p, opts))

\* the branches of plugins/wikilink.ts resolvePath on finalPath
wikiEncodeFinalPath(finalPath) ==
    IF ~finalPath.isString THEN [threw |-> TRUE, value |-> ""]
    ELSE IF isHttpUrl(finalPath.value) THEN [threw |-> FALSE, value |-> finalPath.value]
    ELSE [threw |-> FALSE,
          value |-> "/" \o encodePath(withoutLeadingSlash(finalPath.value))]

\* plugins/wikilink.ts resolvePath: [threw, value]; finalPath.startsWith throws
\* a TypeError when finalPath is no string
wikiResolvePath(p, opts) == wikiEncodeFinalPath(finalPathOf(p, opts))

-----------------------------------------------------------------------------
(* preprocessor.ts: normalizeSize, isImagePath, the embed rewrite and the  *)
(* final image-width substitution.                                         *)

\* height ? `${width}x${height}` : `${width}x0`, or '' when there is no match
normalizedSizeOf(size, match) ==
    IF size = "" \/ ~match.matched THEN ""
    ELSE IF match.height # "" THEN match.width \o "x" \o match.height
    ELSE match.width \o "x0"

normalizeSize(size) == normalizedSizeOf(size, matchSize(size))

ImageExtensions == {"png", "jpg", "jpeg", "gif", "svg", "webp", "bmp", "avif"}

\* the text after the dot at index dot is one of the image extensions
hasImageExtension(p, dot) ==
    dot # -1 /\ toLowerCase(SliceFrom(p, dot + 1)) \in ImageExtensions

\* /\.(png|jpe?g|gif|svg|webp|bmp|avif)$/i.test(path)
isImagePath(p) == hasImageExtension(p, LastIndexOf(p, "."))

EmbedMarker == "{.obsidian-embed}"

EmbedFileMarker == "{.obsidian-embed-file}"

\* resolved.startsWith('http') ? resolved : `/${resolved}`
encodedHrefOf(resolved) == IF StartsWith(resolved, "http") THEN resolved ELSE "/" \o resolved

\* size ? `${info.display}|${size}` : info.display
altOf(info, size) == IF size # "" THEN info.display \o "|" \o size ELSE info.display

\* info.display || info.path
textLabelOf(info) == IF info.display # "" THEN info.display ELSE info.path

\* the locals of the `![[` branch and the text it appends
embedEmit(rawContent, info, resolved, size, isImage) ==
    [seen        |-> TRUE,
     threw       |-> resolved.threw,
     rawContent  |-> rawContent,
     info        |-> info,
     size        |-> size,
     encodedHref |-> encodedHrefOf(resolved.value),
     isImage     |-> isImage,
     emitted     |-> IF isImage
                     THEN "![" \o altOf(info, size) \o "](" \o encodedHrefOf(resolved.value)
                          \o ")" \o EmbedMarker
                     ELSE "[" \o textLabelOf(info) \o "](" \o encodedHrefOf(resolved.value)
                          \o ")" \o EmbedFileMarker]

embedOf(rawContent, info, opts) ==
    embedEmit(rawContent, info, resolvePath(info.path, opts), normalizeSize(info.size),
              isImagePath(info.path))

\* the body of the `![[` branch for the content between the brackets
embedRewrite(rawContent, opts) == embedOf(rawContent, parseWikiLink(rawContent), opts)

\* the first index after p where r has no digit
digitsEndOf(r, p) == firstOf({k \in (p + 1)..Len(r) : CharAt(r, k) \notin Digits})

\* one match of /!\[([^\]]*?)\|(\d+)\]\(([^)]+)\)/ that starts at s, whose `|`
\* is at p and whose digits end at q: [digitsEnd, end], or -1 for no match
imageWidthMatchTo(r, s, p, q) ==
    IF /\ Slice(r, s, s + 2) = "!["
       /\ CharAt(r, p) = "|"
       /\ IndexOf(Slice(r, s + 2, p), "]", 0) = -1
       /\ q > p + 1
       /\ Slice(r, q, q + 2) = "]("
       /\ IndexOf(r, ")", q + 2) > q + 2
    THEN [digitsEnd |-> q, end |-> IndexOf(r, ")", q + 2) + 1]
    ELSE [digitsEnd |-> -1, end |-> -1]

imageWidthMatchAt(r, s, p) == imageWidthMatchTo(r, s, p, digitsEndOf(r, p))

\* the indexes of the `|` that a match starting at s can end its alt text at
matchesAt(r, s) ==
    {p \in (s + 2)..(Len(r) - 1) :
        CharAt(r, p) = "|" /\ imageWidthMatchAt(r, s, p).end # -1}

\* the match that starts at s0, its lazy alt text as short as it can be
shortestMatchAt(r, s0) ==
    IF s0 = -1 THEN [digitsEnd |-> -1, end |-> -1]
    ELSE imageWidthMatchAt(r, s0, firstOf(matchesAt(r, s0)))

\* the leftmost match at or after `from`
firstImageWidthMatch(r, from) ==
    shortestMatchAt(r, firstOf({s \in from..(Len(r) - 1) :
                                   Slice(r, s, s + 2) = "![" /\ matchesAt(r, s) # {}}))

\* result.replace(/!\[([^\]]*?)\|(\d+)\]\(([^)]+)\)/g, '![alt|widthx0](url)')
\* applied to r from index `from` on, m the first match there
RECURSIVE replaceFrom(_, _, _)
replaceFrom(r, from, m) ==
    IF m.end = -1 THEN SliceFrom(r, from)
    ELSE Slice(r, from, m.digitsEnd) \o "x0" \o Slice(r, m.digitsEnd, m.end)
         \o replaceFrom(r, m.end, firstImageWidthMatch(r, m.end))

normalizeImageWidths(r, from) == replaceFrom(r, from, firstImageWidthMatch(r, from))

-----------------------------------------------------------------------------
(* The inputs the model draws from.                                        *)

\* every concatenation of at most n pieces
RECURSIVE Concats(_, _)
Concats(pieces, n) ==
    IF n = 0 THEN {""}
    ELSE LET shorter == Concats(pieces, n - 1)
         IN  shorter \cup {s \o p : s \in shorter, p \in pieces}

\* a link index with same-name notes, a key that is a path, a one-element list,
\* a note whose page is an image, and targets that are URLs
LinkMapA ==
    ( "a"   :> Candidates(<<"/a", "/t/a">>) )
 @@ ( "b"   :> Candidates(<<"/xt/b", "/t/b", "/b">>) )
 @@ ( "d/a" :> Single("/docs/a") )
 @@ ( "e"   :> Candidates(<<"/o/e">>) )
 @@ ( "p"   :> Single("/g/p.png") )
 @@ ( "h"   :> Single("https://h/a b") )
 @@ ( "ph"  :> Single("ftp://h/a b") )

EmptyLinkMap == <<>>

AllOptions ==
    { [hasLinkmap |-> FALSE, linkmap |-> EmptyLinkMap, basePath |-> ""],
      [hasLinkmap |-> TRUE,  linkmap |-> LinkMapA,     basePath |-> "/"],
      [hasLinkmap |-> TRUE,  linkmap |-> EmptyLinkMap, basePath |-> "/n/"],
      [hasLinkmap |-> FALSE, linkmap |-> EmptyLinkMap, basePath |-> "https://h/n/"] }

PathPieces == {"a", "b", "d", "e", "t", "x", "/", "constructor"}

Paths == Concats(PathPieces, MaxPathPieces)

\* what stands between the brackets of a wikilink or an embed: a target made of
\* pieces, then an extension, a display text, a size or an anchor
TargetPieces == {"a", "p", "h", "/", " ", ".png", "constructor"}

Tails == {"", ".md", ".PNG", "|b", "|6", "|6x6", "#s"}

Contents == {t \o tail : t \in Concats(TargetPieces, MaxContentPieces), tail \in Tails}

\* the raw arguments of parseWikiLink: a path part made of pieces, with spaces,
\* `|` and .md in either case, then an anchor part and a display part
RawPathPieces == {"a", " ", "|", ".md", ".MD"}

RawPaths == Concats(RawPathPieces, MaxRawPieces)

RawAnchors == {"", "#s#t", "# s "}

RawDisplays == {"", "|b", "|6", "| 6x6 ", "|6x", "|b#c"}

Raws == {p \o a \o d : p \in RawPaths, a \in RawAnchors, d \in RawDisplays}

ProbeContents == {"", "a", "a|6", "p.png|6", "http"}

\* text around a content: unterminated and nested delimiters, text before and
\* after a span, two spans, and standard image constructs
Frames ==
    { <<"[[", "]]">>, <<"![[", "">>, <<"[[", "">>, <<"a ![[", "]] [[p]] !">>,
      <<"[[p]]![[", "]]">>, <<"![", "](u)">>, <<"[[![", "](u)]]">>,
      <<"!![[", "|]]">>, <<"[[[", "]]]">>, <<"![[a[[", "]]a]]">>,
      <<"![a|6](![", "](u)">>, <<"![", "]()">> }

Texts ==
    {"![[" \o c \o "]]" : c \in Contents}
    \cup {f[1] \o c \o f[2] : f \in Frames, c \in ProbeContents}

\* the inline states the wikilink rule is run on: a wikilink at the cursor, or
\* a probe of its early returns
RuleSources == {"[[" \o c \o "]]" : c \in Contents}

RuleProbes == {"", "[", "[[", "[[]", "[[a", "a[[a]]", "[[a]]", "[[]]", "p[[h#s|b]]a"}

-----------------------------------------------------------------------------
(* The state machine.                                                      *)

NoEmbed == [seen |-> FALSE]

NoResolution == [resolved |-> "", candidates |-> <<>>, isAmbiguous |-> FALSE]

\* the locals and results of a call, before any call and after a return
NoInfo == [path |-> "", display |-> "", anchor |-> "", size |-> ""]

NoLinkOpen == [hasClass |-> FALSE, class |-> ""]

NoBlock == [type |-> "", hasChildren |-> FALSE, children |-> <<>>]

\* the chains of a new engine (markdown-it): the core chain, where block and
\* inline tokenization are rules, and the inline chain, which holds the native
\* link rule
DefaultCoreRules ==
    <<"normalize", "block", "inline", "linkify", "replacements", "smartquotes",
      "text_join">>

DefaultInlineRules ==
    <<"text", "linkify", "newline", "escape", "backticks", "strikethrough",
      "emphasis", "link", "image", "autolink", "html_inline", "entity">>

\* a ruler.before that puts the rule at the end of the chain
appendRule(ruler, name, rule) == Append(ruler, rule)

\* ruler.before(name, rule, fn): the rule is put just before the rule `name`
insertBefore(ruler, name, rule) ==
    LET k == CHOOSE n \in 1..Len(ruler) :
                 ruler[n] = name /\ \A m \in 1..(n - 1) : ruler[m] # name
    IN  SubSeq(ruler, 1, k - 1) \o <<rule>> \o SubSeq(ruler, k, Len(ruler))

\* ruler.after(name, rule, fn): the rule is put just after the rule `name`
insertAfter(ruler, name, rule) ==
    LET k == CHOOSE n \in 1..Len(ruler) :
                 ruler[n] = name /\ \A m \in 1..(n - 1) : ruler[m] # name
    IN  SubSeq(ruler, 1, k) \o <<rule>> \o SubSeq(ruler, k + 1, Len(ruler))

Cleared ==
    /\ path = ""
    /\ resolution = NoResolution
    /\ text = ""
    /\ i = 0
    /\ result = ""
    /\ embed = NoEmbed
    /\ passed = <<>>
    /\ src = ""
    /\ start = 0
    /\ pos = 0
    /\ silent = FALSE
    /\ tokens = <<>>
    /\ ret = FALSE
    /\ previous = <<>>
    /\ rawText = ""
    /\ linkInfo = NoInfo
    /\ blockToken = NoBlock
    /\ child = 0
    /\ newChildren = <<>>
    /\ lastIndex = 0
    /\ hasMatch = FALSE
    /\ linkOpen = NoLinkOpen
    /\ renders = 0
    /\ stage = 0
    /\ trace = <<>>

Init ==
    /\ options \in AllOptions
    /\ patternLastIndex = 0
    /\ pc = "new"
    /\ coreRuler = DefaultCoreRules
    /\ inlineRuler = DefaultInlineRules
    /\ linkOpenRule = "default"
    /\ used = <<>>
    /\ Cleared

resolverVars == <<path, resolution>>

preprocessorVars == <<text, i, result, embed, passed>>

ruleVars == <<src, start, pos, silent, tokens, ret>>

callerVars == <<previous>>

parserVars == <<rawText, linkInfo>>

tagVars == <<blockToken, child, newChildren, lastIndex, hasMatch, patternLastIndex>>

engineVars == <<linkOpen, renders, coreRuler, inlineRuler, linkOpenRule, used, stage, trace>>

\* a caller invokes resolveLinkPath(p, { linkmap })
ResolveCall ==
    /\ pc = "idle"
    /\ options.hasLinkmap
    /\ \E p \in Paths :
        /\ path' = p
        /\ resolution' = resolveLinkPath(p, options.linkmap)
    /\ pc' = "resolved"
    /\ UNCHANGED <<options, preprocessorVars, ruleVars, callerVars, parserVars, tagVars, engineVars>>

\* a caller invokes parseWikiLink(raw)
ParseCall ==
    /\ pc = "idle"
    /\ \E r \in Raws :
        /\ rawText' = r
        /\ linkInfo' = parseWikiLink(r)
    /\ pc' = "parsed"
    /\ UNCHANGED <<options, resolverVars, preprocessorVars, ruleVars, callerVars, tagVars, engineVars>>

(* obsidianPreprocessor(text, options): the scan loop, one iteration a step *)

\* the call: let i = 0, result = ''
PreprocessCall ==
    /\ pc = "idle"
    /\ \E t \in Texts : text' = t
    /\ i' = 0
    /\ result' = ""
    /\ pc' = "scan"
    /\ UNCHANGED <<options, embed, passed, resolverVars, ruleVars, callerVars, parserVars, tagVars, engineVars>>

Scanning == pc = "scan" /\ i < Len(text)

nextTwo == Slice(text, i, i + 2)

nextThree == Slice(text, i, i + 3)

\* a copyChar that drops the character
skipChar ==
    /\ result' = result
    /\ i' = i + 1
    /\ UNCHANGED <<options, pc, text, embed, passed, resolverVars, ruleVars, callerVars, parserVars, tagVars, engineVars>>

\* result += ch; i += 1
copyChar ==
    /\ result' = result \o CharAt(text, i)
    /\ i' = i + 1
    /\ UNCHANGED <<options, pc, text, embed, passed, resolverVars, ruleVars, callerVars, parserVars, tagVars, engineVars>>

\* text.indexOf(']]', from)
closingFrom(from) == IndexOf(text, "]]", from)

\* the embed e, which ends at `end`, is appended, or resolvePath has thrown
embedAppend(end, e) ==
    /\ embed' = e
    /\ IF e.threw
       THEN /\ pc' = "threw"
            /\ UNCHANGED <<result, i>>
       ELSE /\ pc' = pc
            /\ result' = result \o e.emitted
            /\ i' = end + 2

\* `![[` with its `]]`: the embed is rewritten, or resolvePath throws
EmbedStep ==
    /\ Scanning
    /\ nextThree = "![["
    /\ closingFrom(i + 3) # -1
    /\ embedAppend(closingFrom(i + 3),
                   embedRewrite(Slice(text, i + 3, closingFrom(i + 3)), options))
    /\ UNCHANGED <<options, text, passed, resolverVars, ruleVars, callerVars, parserVars, tagVars, engineVars>>

\* `![[` with no `]]` after it
EmbedUnterminated ==
    /\ Scanning
    /\ nextThree = "![["
    /\ closingFrom(i + 3) = -1
    /\ copyChar

\* the span that ends at `end` is copied
spanCopy(end) ==
    /\ result' = result \o Slice(text, i, end + 2)
    /\ passed' = Append(passed, Slice(text, i, end + 2))
    /\ i' = end + 2

\* `[[` with its `]]`: the span is copied
WikiLinkStep ==
    /\ Scanning
    /\ nextThree # "![["
    /\ nextTwo = "[["
    /\ closingFrom(i + 2) # -1
    /\ spanCopy(closingFrom(i + 2))
    /\ UNCHANGED <<options, pc, text, embed, resolverVars, ruleVars, callerVars, parserVars, tagVars, engineVars>>

\* `[[` with no `]]` after it
WikiLinkUnterminated ==
    /\ Scanning
    /\ nextThree # "![["
    /\ nextTwo = "[["
    /\ closingFrom(i + 2) = -1
    /\ copyChar

\* any other character
CopyStep ==
    /\ Scanning
    /\ nextThree # "![["
    /\ nextTwo # "[["
    /\ copyChar

\* the loop has ended: the image widths are normalized and the text is returned
PreprocessReturn ==
    /\ pc = "scan"
    /\ i >= Len(text)
    /\ result' = normalizeImageWidths(result, 0)
    /\ pc' = "preprocessed"
    /\ UNCHANGED <<options, text, i, embed, passed, resolverVars, ruleVars, callerVars, parserVars, tagVars, engineVars>>

\* a caller composes preprocess(preprocess(text)): the text the first call
\* returned, in which the scan met no span, is the argument of a second call
PreprocessAgain ==
    /\ pc = "preprocessed"
    /\ previous = <<>>
    /\ embed = NoEmbed
    /\ passed = <<>>
    /\ previous' = <<text, result>>
    /\ text' = result
    /\ i' = 0
    /\ result' = ""
    /\ pc' = "scan"
    /\ UNCHANGED <<options, embed, passed, resolverVars, ruleVars, parserVars, tagVars, engineVars>>

(* plugins/wikilink.ts: the inline rule, run on a state (src, pos, posMax) *)

Token(type, tag, nesting) ==
    [type |-> type, tag |-> tag, nesting |-> nesting, href |-> "", content |-> ""]

RuleInputs ==
    {<<s, 0, FALSE>> : s \in RuleSources}
    \cup {<<s, at, quiet>> : s \in RuleProbes, at \in 0..2, quiet \in BOOLEAN}

\* the inline parser runs the rule on a state: state.src, state.pos, silent
RuleCall ==
    /\ pc = "idle"
    /\ \E inp \in RuleInputs :
        /\ src' = inp[1]
        /\ start' = inp[2]
        /\ pos' = inp[2]
        /\ silent' = inp[3]
    /\ pc' = "rule"
    /\ UNCHANGED <<options, tokens, ret, resolverVars, preprocessorVars, callerVars, parserVars, tagVars, engineVars>>

\* a ruleFails that moves the cursor past the two characters it has read
ruleFailsAdvancing ==
    /\ ret' = FALSE
    /\ pc' = "ruled"
    /\ pos' = start + 2
    /\ UNCHANGED <<options, src, start, silent, tokens, resolverVars, preprocessorVars, callerVars, parserVars, tagVars, engineVars>>

\* return false: nothing is pushed and state.pos stays
ruleFails ==
    /\ ret' = FALSE
    /\ pc' = "ruled"
    /\ UNCHANGED <<options, src, start, pos, silent, tokens, resolverVars, preprocessorVars, callerVars, parserVars, tagVars, engineVars>>

\* state.src.slice(start, start + 2) === '[['
atOpening == Slice(src, start, start + 2) = "[["

\* state.src.indexOf(']]', start + 2)
closing == IndexOf(src, "]]", start + 2)

\* if (start + 2 >= max) return false
RuleTooShort ==
    /\ pc = "rule"
    /\ start + 2 >= Len(src)
    /\ ruleFails

\* if (state.src.slice(start, start + 2) !== '[[') return false
RuleNoOpening ==
    /\ pc = "rule"
    /\ start + 2 < Len(src)
    /\ ~atOpening
    /\ ruleFails

\* if (end === -1) return false
RuleNoClosing ==
    /\ pc = "rule"
    /\ start + 2 < Len(src)
    /\ atOpening
    /\ closing = -1
    /\ ruleFails

\* if (silent) return false
RuleSilent ==
    /\ pc = "rule"
    /\ start + 2 < Len(src)
    /\ atOpening
    /\ closing # -1
    /\ silent
    /\ ruleFails

\* a finalHrefOf that leaves the "#" out
finalHrefWithoutHash(info, href) ==
    IF info.anchor # "" THEN href \o encodeURIComponent(info.anchor) ELSE href

\* href + '#' + encodeURIComponent(anchor) when the link has an anchor
finalHrefOf(info, href) ==
    IF info.anchor # "" THEN href \o "#" \o encodeURIComponent(info.anchor) ELSE href

\* the three tokens the rule pushes: link_open with its href, text, link_close
tokensOf(info, href) ==
    << [Token("link_open", "a", 1) EXCEPT !.href = finalHrefOf(info, href)],
       [Token("text", "", 0) EXCEPT !.content = textLabelOf(info)],
       Token("link_close", "a", -1) >>

linkTokens(rawContent, href) == tokensOf(parseWikiLink(rawContent), href)

\* the tokens are pushed and the cursor moves past `]]`, or resolvePath has thrown
rulePush(rawContent, href) ==
    IF href.threw
    THEN /\ pc' = "threw"
         /\ UNCHANGED <<pos, tokens, ret>>
    ELSE /\ pc' = "ruled"
         /\ pos' = closing + 2
         /\ tokens' = linkTokens(rawContent, href.value)
         /\ ret' = TRUE

\* the match
RuleMatch ==
    /\ pc = "rule"
    /\ start + 2 < Len(src)
    /\ atOpening
    /\ closing # -1
    /\ ~silent
    /\ rulePush(Slice(src, start + 2, closing),
                wikiResolvePath(parseWikiLink(Slice(src, start + 2, closing)).path, options))
    /\ UNCHANGED <<options, src, start, silent, resolverVars, preprocessorVars, callerVars, parserVars, tagVars, engineVars>>

(* plugins/tags.ts: the core rule, run after inline on each block token *)

\* the characters of the model that the class of the tag body holds: letters,
\* digits, "_", "-", "/", and "#" and "*", which \p{Emoji} holds with the digits
TagBodyChars ==
    DOMAIN LowerCaseOf \cup {LowerCaseOf[c] : c \in DOMAIN LowerCaseOf}
    \cup Digits \cup {"_", "-", "/", "#", "*"}

\* where the body that begins at index k ends: the class is matched greedily
bodyEnd(content, k) ==
    firstOf({j \in k..Len(content) : CharAt(content, j) \notin TagBodyChars})

\* a hashAt whose "#" may follow any character
hashAtAnywhere(content, s) ==
    IF CharAt(content, s) = "#" THEN s
    ELSE IF CharAt(content, s) \in WhiteSpace /\ CharAt(content, s + 1) = "#" THEN s + 1
    ELSE -1

\* the index of the "#" of a match that starts at index s, -1 when none does:
\* (^|[\s]) is the start of the string, or one whitespace character
hashAt(content, s) ==
    IF s = 0 /\ CharAt(content, 0) = "#" THEN 0
    ELSE IF CharAt(content, s) \in WhiteSpace /\ CharAt(content, s + 1) = "#" THEN s + 1
    ELSE -1

matchesFrom(content, from) ==
    {s \in from..(Len(content) - 1) :
        /\ hashAt(content, s) # -1
        /\ CharAt(content, hashAt(content, s) + 1) \in TagBodyChars}

\* [full, prefix, tagName] = match, match.index, and the lastIndex exec leaves
tagMatchOf(content, s, h) ==
    [index   |-> s,
     prefix  |-> Slice(content, s, h),
     tagName |-> Slice(content, h + 1, bodyEnd(content, h + 1)),
     end     |-> bodyEnd(content, h + 1)]

tagMatchFrom(content, s) ==
    IF s = -1 THEN [index |-> -1, prefix |-> "", tagName |-> "", end |-> 0]
    ELSE tagMatchOf(content, s, hashAt(content, s))

\* TAG_PATTERN.exec(text) with TAG_PATTERN.lastIndex = from
tagExec(content, from) == tagMatchFrom(content, firstOf(matchesFrom(content, from)))

\* new state.Token(type, tag, nesting)
TagToken(type, tag, nesting) ==
    [type |-> type, tag |-> tag, nesting |-> nesting, content |-> "", attrs |-> <<>>]

TextToken(content) == [TagToken("text", "", 0) EXCEPT !.content = content]

\* a textBefore that leaves the prefix out
textBeforeMatch(content, m) ==
    IF m.index > lastIndex THEN <<TextToken(Slice(content, lastIndex, m.index))>> ELSE <<>>

\* the text token pushed before the span: the text since lastIndex with the
\* prefix, or the prefix alone, or nothing
textBefore(content, m) ==
    IF m.index > lastIndex
    THEN <<TextToken(Slice(content, lastIndex, m.index + Len(m.prefix)))>>
    ELSE IF m.prefix # "" THEN <<TextToken(m.prefix)>>
    ELSE <<>>

\* open, tText, close
tagSpan(tagName) ==
    << [TagToken("span_open", "span", 1)
           EXCEPT !.attrs = << <<"class", "obsidian-tag">>, <<"data-tag", tagName>> >>],
       TextToken("#" \o tagName),
       TagToken("span_close", "span", -1) >>

\* the text nodes the rule is run on: "#", a letter, a space and a character
\* that is neither whitespace nor of the tag body
TagTextPieces == {"#", "t", " ", "!"}

TagTexts == Concats(TagTextPieces, MaxTagPieces)

InlineToken(children) == [type |-> "inline", hasChildren |-> TRUE, children |-> children]

\* the block tokens: an inline token with one text child, inline tokens with
\* children that are no text, and a block token that is not inline
BlockTokens ==
    {InlineToken(<<TextToken(c)>>) : c \in TagTexts}
    \cup { InlineToken(<<TextToken("#t"), TagToken("softbreak", "br", 0), TextToken("t #t")>>),
           InlineToken(<<TagToken("softbreak", "br", 0)>>),
           InlineToken(<<TextToken("t!"), TextToken(" #t!")>>),
           InlineToken(<<>>),
           [type |-> "paragraph_open", hasChildren |-> FALSE, children |-> <<>>] }

\* state.tokens.forEach((blockToken) => ...): the rule comes to a block token
TagCall ==
    /\ pc = "idle"
    /\ \E b \in BlockTokens : blockToken' = b
    /\ child' = 1
    /\ newChildren' = <<>>
    /\ lastIndex' = 0
    /\ hasMatch' = FALSE
    /\ pc' = "tags"
    /\ UNCHANGED <<options, patternLastIndex, resolverVars, preprocessorVars, ruleVars,
                   callerVars, parserVars, engineVars>>

otherVars == <<options, resolverVars, preprocessorVars, ruleVars, callerVars, parserVars,
               engineVars>>

\* if (blockToken.type !== 'inline' || !blockToken.children) return
TagBlockSkip ==
    /\ pc = "tags"
    /\ blockToken.type # "inline" \/ ~blockToken.hasChildren
    /\ pc' = "tagged"
    /\ UNCHANGED <<otherVars, tagVars>>

AtChild == pc = "tags" /\ blockToken.type = "inline" /\ blockToken.hasChildren
           /\ child <= Len(blockToken.children)

\* a child that is no text is pushed as it is
TagChildSkip ==
    /\ AtChild
    /\ blockToken.children[child].type # "text"
    /\ newChildren' = Append(newChildren, blockToken.children[child])
    /\ child' = child + 1
    /\ UNCHANGED <<otherVars, pc, blockToken, lastIndex, hasMatch, patternLastIndex>>

\* the body of the while loop for the match m
tagPush(content, m) ==
    /\ m.index # -1
    /\ hasMatch' = TRUE
    /\ newChildren' = newChildren \o textBefore(content, m) \o tagSpan(m.tagName)
    /\ lastIndex' = m.end
    /\ patternLastIndex' = m.end

\* TAG_PATTERN.exec(text) finds a match
TagMatch ==
    /\ AtChild
    /\ blockToken.children[child].type = "text"
    /\ tagPush(blockToken.children[child].content,
               tagExec(blockToken.children[child].content, patternLastIndex))
    /\ UNCHANGED <<otherVars, pc, blockToken, child>>

\* a textAfter that drops the text after the last tag
textAfterDropped(content) ==
    IF ~hasMatch THEN <<blockToken.children[child]>> ELSE <<>>

\* the tokens pushed when the loop has ended: the rest of the text, or the
\* child as it is when nothing matched
textAfter(content) ==
    IF ~hasMatch THEN <<blockToken.children[child]>>
    ELSE IF lastIndex < Len(content) THEN <<TextToken(SliceFrom(content, lastIndex))>>
    ELSE <<>>

\* a TagChildDone after which the pattern keeps its scan position
TagChildDoneKeepingPosition ==
    /\ AtChild
    /\ blockToken.children[child].type = "text"
    /\ tagExec(blockToken.children[child].content, patternLastIndex).index = -1
    /\ newChildren' = newChildren \o textAfter(blockToken.children[child].content)
    /\ child' = child + 1
    /\ lastIndex' = 0
    /\ hasMatch' = FALSE
    /\ UNCHANGED <<otherVars, pc, blockToken, patternLastIndex>>

\* TAG_PATTERN.exec(text) returns null, which sets TAG_PATTERN.lastIndex to 0
TagChildDone ==
    /\ AtChild
    /\ blockToken.children[child].type = "text"
    /\ tagExec(blockToken.children[child].content, patternLastIndex).index = -1
    /\ patternLastIndex' = 0
    /\ newChildren' = newChildren \o textAfter(blockToken.children[child].content)
    /\ child' = child + 1
    /\ lastIndex' = 0
    /\ hasMatch' = FALSE
    /\ UNCHANGED <<otherVars, pc, blockToken>>

\* if (newChildren.some(t => t.type === 'span_open')) blockToken.children = newChildren
TagReturn ==
    /\ pc = "tags"
    /\ blockToken.type = "inline" /\ blockToken.hasChildren
    /\ child > Len(blockToken.children)
    /\ blockToken' =
         IF \E k \in 1..Len(newChildren) : newChildren[k].type = "span_open"
         THEN [blockToken EXCEPT !.children = newChildren]
         ELSE blockToken
    /\ pc' = "tagged"
    /\ UNCHANGED <<otherVars, child, newChildren, lastIndex, hasMatch, patternLastIndex>>

(* plugins/embed.ts: the link_open renderer rule the plugin installs *)

\* the link_open tokens rendered: without a class attribute, and with one that
\* holds the marker of a file embed or does not
LinkOpenTokens ==
    {NoLinkOpen} \cup
    {[hasClass |-> TRUE, class |-> c] :
        c \in {"", "a", "obsidian-embed-file", "a obsidian-embed-file"}}

\* the token after the rule: a class that includes the marker gets
\* " obsidian-embed-file" appended
enhance(tok) ==
    IF tok.hasClass /\ IndexOf(tok.class, "obsidian-embed-file", 0) # -1
    THEN [tok EXCEPT !.class = tok.class \o " obsidian-embed-file"]
    ELSE tok

\* a token comes to the renderer
RenderCall ==
    /\ pc = "idle"
    /\ \E tok \in LinkOpenTokens : linkOpen' = tok
    /\ renders' = 0
    /\ pc' = "render"
    /\ UNCHANGED <<options, resolverVars, preprocessorVars, ruleVars, callerVars,
                   parserVars, tagVars, coreRuler, inlineRuler, linkOpenRule, used, stage, trace>>

\* md.renderer.rules.link_open(tokens, idx, ...) renders the token, once more
RenderLinkOpen ==
    /\ pc = "render"
    /\ renders < MaxRenders
    /\ linkOpen' = enhance(linkOpen)
    /\ renders' = renders + 1
    /\ UNCHANGED <<options, pc, resolverVars, preprocessorVars, ruleVars, callerVars,
                   parserVars, tagVars, coreRuler, inlineRuler, linkOpenRule, used, stage, trace>>

(* index.ts: useObsidianMarkdown registers the rules on the engine, and the *)
(* engine runs its chains on a document                                     *)

\* useObsidianMarkdown(md, options): md.use of usePreprocessor,
\* obsidianWikiLink, obsidianTags and obsidianEmbed, then of the official
\* plugins attrs, mark, tasklist, katex, spoiler, imgSize and alert, in this
\* order. Of the official plugins attrs and tasklist put a rule of their own in
\* the core chain, mark, katex, spoiler and imgSize in the inline chain, and
\* alert in the block chain, which is inside the core rule block.
Install ==
    /\ pc = "new"
    /\ coreRuler' =
         insertAfter(
           insertBefore(
             insertAfter(
               insertBefore(coreRuler, "normalize", "obsidian_preprocessor"),
               "inline", "obsidian_tags"),
             "linkify", "attrs"),
           "inline", "github-task-lists")
    /\ inlineRuler' =
         insertBefore(
           insertBefore(
             insertAfter(
               insertBefore(
                 insertBefore(inlineRuler, "link", "obsidian_wikilink"),
                 "emphasis", "mark"),
               "escape", "math_inline"),
             "emphasis", "spoiler"),
           "emphasis", "img_size")
    /\ linkOpenRule' = "obsidian_embed"
    /\ used' = <<"usePreprocessor", "obsidianWikiLink", "obsidianTags", "obsidianEmbed",
                 "attrs", "mark", "tasklist", "katex", "spoiler", "imgSize", "alert">>
    /\ pc' = "idle"
    /\ UNCHANGED <<options, resolverVars, preprocessorVars, ruleVars, callerVars,
                   parserVars, tagVars, linkOpen, renders, stage, trace>>

\* md.render(src): the engine starts its core chain on a document
DocumentCall ==
    /\ pc = "idle"
    /\ stage' = 1
    /\ trace' = <<>>
    /\ pc' = "core"
    /\ UNCHANGED <<options, resolverVars, preprocessorVars, ruleVars, callerVars,
                   parserVars, tagVars, linkOpen, renders, coreRuler, inlineRuler,
                   linkOpenRule, used>>

\* the next rule of the core chain runs; the rule inline runs the inline chain
CoreRuleStep ==
    /\ pc = "core"
    /\ stage <= Len(coreRuler)
    /\ trace' = trace \o <<coreRuler[stage]>>
                \o (IF coreRuler[stage] = "inline" THEN inlineRuler ELSE <<>>)
    /\ stage' = stage + 1
    /\ UNCHANGED <<options, pc, resolverVars, preprocessorVars, ruleVars, callerVars,
                   parserVars, tagVars, linkOpen, renders, coreRuler, inlineRuler,
                   linkOpenRule, used>>

\* the core chain has ended and the renderer renders the tokens
RenderStep ==
    /\ pc = "core"
    /\ stage > Len(coreRuler)
    /\ trace' = trace \o <<"render", linkOpenRule>>
    /\ pc' = "rendered"
    /\ UNCHANGED <<options, resolverVars, preprocessorVars, ruleVars, callerVars,
                   parserVars, tagVars, linkOpen, renders, coreRuler, inlineRuler,
                   linkOpenRule, used, stage>>

\* the call has returned or thrown and its caller drops the transient values
Return ==
    /\ pc \in {"resolved", "parsed", "preprocessed", "ruled", "threw", "tagged", "render", "rendered"}
    /\ pc' = "idle"
    /\ path' = "" /\ resolution' = NoResolution
    /\ text' = "" /\ i' = 0 /\ result' = "" /\ embed' = NoEmbed /\ passed' = <<>>
    /\ src' = "" /\ start' = 0 /\ pos' = 0 /\ silent' = FALSE /\ tokens' = <<>> /\ ret' = FALSE
    /\ previous' = <<>>
    /\ rawText' = "" /\ linkInfo' = NoInfo
    /\ blockToken' = NoBlock /\ child' = 0 /\ newChildren' = <<>>
    /\ lastIndex' = 0 /\ hasMatch' = FALSE
    /\ linkOpen' = NoLinkOpen /\ renders' = 0
    /\ stage' = 0 /\ trace' = <<>>
    /\ UNCHANGED <<options, patternLastIndex, coreRuler, inlineRuler, linkOpenRule, used>>

Next ==
    \/ Install
    \/ DocumentCall
    \/ CoreRuleStep
    \/ RenderStep
    \/ ResolveCall
    \/ ParseCall
    \/ PreprocessCall
    \/ EmbedStep
    \/ EmbedUnterminated
    \/ WikiLinkStep
    \/ WikiLinkUnterminated
    \/ CopyStep
    \/ PreprocessReturn
    \/ PreprocessAgain
    \/ RuleCall
    \/ RuleTooShort
    \/ RuleNoOpening
    \/ RuleNoClosing
    \/ RuleSilent
    \/ RuleMatch
    \/ TagCall
    \/ TagBlockSkip
    \/ TagChildSkip
    \/ TagMatch
    \/ TagChildDone
    \/ TagReturn
    \/ RenderCall
    \/ RenderLinkOpen
    \/ Return

Spec == Init /\ [][Next]_vars

-----------------------------------------------------------------------------
(* Properties of resolveLinkPath, read off the state after a ResolveCall:  *)
(* the path it was given, the index in options and the result it returned. *)

\* the keys the index itself holds
Keys == DOMAIN options.linkmap

\* the path less one leading "/"
pathLessSlash ==
    IF SubSeq(path, 1, Min(1, Len(path))) = "/" THEN SubSeq(path, 2, Len(path)) ELSE path

\* the last `/`-delimited segment of p, p itself when that is empty
LastSegment(p) ==
    IF LastIndexOf(p, "/") = Len(p) - 1 THEN p
    ELSE SubSeq(p, LastIndexOf(p, "/") + 2, Len(p))

pathLastSegment == LastSegment(path)

\* the candidates stored under the path's last segment
segmentEntry == options.linkmap[pathLastSegment].items

\* the positions of the candidates that end with the path less its leading "/"
suffixMatches ==
    {k \in 1..Len(segmentEntry) :
        /\ Len(pathLessSlash) <= Len(segmentEntry[k])
        /\ SubSeq(segmentEntry[k], Len(segmentEntry[k]) - Len(pathLessSlash) + 1,
                  Len(segmentEntry[k])) = pathLessSlash}

\* C1: when the path is no key of the index and its last segment is a key with
\* more than one candidate, resolved is the first candidate that ends with the
\* path (a leading "/" ignored), and the first candidate when none does.
C1_SuffixDisambiguation ==
    (/\ pc = "resolved"
     /\ path \notin Keys
     /\ pathLastSegment \in Keys
     /\ Len(segmentEntry) > 1)
    => /\ suffixMatches # {} =>
            \E k \in suffixMatches :
                /\ \A h \in suffixMatches : k <= h
                /\ resolution.resolved = segmentEntry[k]
       /\ suffixMatches = {} => resolution.resolved = segmentEntry[1]

\* a path with a prefix picks the later candidate that ends with it
C1_Witness ==
    /\ pc = "resolved"
    /\ path = "t/a"
    /\ resolution.resolved = "/t/a"
    /\ resolution.candidates[1] = "/a"

\* C2: when the path is a key of the index, resolved is the entry's value or the
\* first element of its list and candidates is the entry's list, whatever is
\* stored under the path's last segment.
C2_ExactKeyFirst ==
    (pc = "resolved" /\ path \in Keys)
    => /\ resolution.resolved = options.linkmap[path].items[1]
       /\ resolution.candidates = options.linkmap[path].items

\* the path is a key and so is its last segment, with other candidates
C2_Witness ==
    /\ pc = "resolved"
    /\ path = "d/a"
    /\ pathLastSegment = "a"
    /\ "a" \in Keys
    /\ resolution.resolved = "/docs/a"
    /\ resolution.candidates = <<"/docs/a">>

\* C3: candidates is empty exactly when neither the path nor its last segment
\* is a key of the index, and then resolved is the path and isAmbiguous is false.
C3_EmptyIffNoMatch ==
    pc = "resolved"
    => /\ resolution.candidates = <<>> <=> (path \notin Keys /\ pathLastSegment \notin Keys)
       /\ resolution.candidates = <<>> =>
            (resolution.resolved = path /\ ~resolution.isAmbiguous)

\* C4: resolved is never the empty string.
C4_ResolvedNeverEmpty ==
    pc = "resolved" => resolution.resolved # ""

\* C4 as amended: for every path that is not empty resolved is never the
\* empty string.
C4_ResolvedNonEmptyForNonEmptyPath ==
    (pc = "resolved" /\ path # "") => resolution.resolved # ""

\* a path that matches nothing is returned as it is
C4_Witness ==
    /\ pc = "resolved"
    /\ path = "x/t"
    /\ resolution.resolved = "x/t"
    /\ resolution.candidates = <<>>

\* C5: isAmbiguous is true exactly when candidates has more than one element.
C5_AmbiguousIffSeveral ==
    pc = "resolved" => (resolution.isAmbiguous <=> Len(resolution.candidates) > 1)

\* the suffix rule picked a candidate and the result is still ambiguous
C5_Witness ==
    /\ pc = "resolved"
    /\ path = "t/b"
    /\ Len(resolution.candidates) = 3
    /\ resolution.isAmbiguous

-----------------------------------------------------------------------------
(* Properties of the wikilink rule, read off the state after it has        *)
(* matched: the source and start it ran on and the tokens it pushed.       *)

\* the content between the brackets of the link the rule matched, and its parse
ruleContent == SubSeq(src, start + 3, IndexOf(src, "]]", start + 2))

ruleInfo == parseWikiLink(ruleContent)

\* the rule has matched a link whose target has no entry in the index
ruleMetUnresolved ==
    /\ src # ""
    /\ pc = "threw" \/ (pc = "ruled" /\ ret)
    /\ ruleInfo.path \notin Keys
    /\ LastSegment(ruleInfo.path) \notin Keys

\* the base path: basePath or the default, one trailing "/" dropped
baseOf ==
    IF options.basePath = "" THEN "/attachments"
    ELSE IF SubSeq(options.basePath, Len(options.basePath), Len(options.basePath)) = "/"
    THEN SubSeq(options.basePath, 1, Len(options.basePath) - 1)
    ELSE options.basePath

\* what the rule appends to the href for the link's anchor
anchorSuffix ==
    IF ruleInfo.anchor = "" THEN "" ELSE "#" \o encodeURIComponent(ruleInfo.anchor)

\* C6: for a target with no entry in the index the rule emits an anchor whose
\* href is empty and whose text is the display text, and does not throw.
C6_UnresolvedHrefEmpty ==
    ruleMetUnresolved
    => /\ pc = "ruled"
       /\ tokens[1].href = ""
       /\ tokens[2].content = ruleInfo.display

\* C7: for a target the index does not resolve the href is the base path, "/"
\* and the percent-encoded target path (then the anchor, when there is one).
C7_HrefIsBaseSlashEncodedPath ==
    (ruleMetUnresolved /\ pc = "ruled")
    => tokens[1].href = baseOf \o "/" \o encodePath(ruleInfo.path) \o anchorSuffix

\* C7 as amended: the href is "/" and the percent-encoded non-empty segments
\* of base/target, or base/target as it is when that is an http(s) URL; for a
\* target with a non-empty segment under the default base that is
\* /attachments/ and the encoded target.
C7_HrefIsEncodedBaseAndPath ==
    (ruleMetUnresolved /\ pc = "ruled")
    => /\ tokens[1].href =
            (IF isHttpUrl(baseOf \o "/" \o ruleInfo.path)
             THEN baseOf \o "/" \o ruleInfo.path
             ELSE "/" \o encodePath(baseOf \o "/" \o ruleInfo.path)) \o anchorSuffix
       /\ (options.basePath = "" /\ encodePath(ruleInfo.path) # "")
          => tokens[1].href = "/attachments/" \o encodePath(ruleInfo.path) \o anchorSuffix

\* the default base and a target with a space in it
C7_Witness ==
    /\ pc = "ruled"
    /\ ret
    /\ options.basePath = ""
    /\ src = "[[a p]]"
    /\ tokens[1].href = "/attachments/a%20p"

-----------------------------------------------------------------------------
(* Properties of the preprocessor, read off the locals of the last embed   *)
(* it rewrote and off the text it returned.                                *)

\* the scan has rewritten an embed
embedEmitted == embed.seen /\ ~embed.threw

\* s ends with "." and one of the image extensions, in either case
endsInImageExtension(s) ==
    \E x \in ImageExtensions :
        /\ Len(x) + 1 <= Len(s)
        /\ toLowerCase(SubSeq(s, Len(s) - Len(x), Len(s))) = "." \o x

\* the target the embed resolves to: the index's entry or base/path
embedTarget == finalPathOf(embed.info.path, options).value

\* the image construct with the given alt text, and the link construct
imageConstruct(alt) == "![" \o alt \o "](" \o embed.encodedHref \o "){.obsidian-embed}"

linkConstruct == "[" \o embed.info.display \o "](" \o embed.encodedHref \o "){.obsidian-embed-file}"

\* the size as the image construct carries it: WxH, or Wx0 for a width alone
sizeInAlt ==
    IF \E k \in 1..Len(embed.info.size) : SubSeq(embed.info.size, k, k) = "x"
    THEN embed.info.size
    ELSE embed.info.size \o "x0"

\* the alt text of the image construct: the display, or display|size
altText ==
    IF embed.info.size = "" THEN embed.info.display
    ELSE embed.info.display \o "|" \o sizeInAlt

\* C8: every terminated embed is emitted, as the image construct tagged
\* {.obsidian-embed}, its alt the display or display|size, exactly when the
\* resolved target has an image extension, and as the link construct tagged
\* {.obsidian-embed-file}, its text the display, otherwise.
C8_ImageByResolvedTarget ==
    embed.seen
    => /\ ~embed.threw
       /\ embed.emitted =
            IF endsInImageExtension(embedTarget) THEN imageConstruct(altText)
            ELSE linkConstruct

\* the destination of the embed less the "/" put before it
destination ==
    IF SubSeq(embed.encodedHref, 1, Min(4, Len(embed.encodedHref))) = "http"
    THEN embed.encodedHref
    ELSE SubSeq(embed.encodedHref, 2, Len(embed.encodedHref))

\* where the scheme prefix of t ends: after its first "://", 0 when it has none
schemeEnd(t) == IF IndexOf(t, "://", 0) = -1 THEN 0 ELSE IndexOf(t, "://", 0) + 3

\* C9: the destination is the resolved target with each segment percent-encoded
\* and every "/" kept; an http(s):// prefix is kept and the rest is encoded
\* segment by segment.
C9_DestinationEncoded ==
    embedEmitted
    => destination =
         IF isHttpUrl(embedTarget)
         THEN SubSeq(embedTarget, 1, schemeEnd(embedTarget))
              \o encodePath(SubSeq(embedTarget, schemeEnd(embedTarget) + 1, Len(embedTarget)))
         ELSE encodePath(embedTarget)

\* C9 as amended: a resolved target that begins with http:// or https:// is the
\* destination as it is, not encoded; of any other target the non-empty
\* segments are percent-encoded and joined by "/", after its prefix up to the
\* first "://" when it has one.
C9_DestinationEncodedUnlessHttp ==
    embedEmitted
    => destination =
         IF isHttpUrl(embedTarget) THEN embedTarget
         ELSE SubSeq(embedTarget, 1, schemeEnd(embedTarget))
              \o encodePath(SubSeq(embedTarget, schemeEnd(embedTarget) + 1, Len(embedTarget)))

\* an embed of a note whose entry is an https URL with a space in it
C9_Witness ==
    /\ embedEmitted
    /\ embed.info.path = "h"
    /\ embedTarget = "https://h/a b"
    /\ embed.encodedHref = "https://h/a b"

\* span occurs in s
occursIn(span, s) ==
    \E k \in 1..(Len(s) - Len(span) + 1) : SubSeq(s, k, k + Len(span) - 1) = span

\* C10: every `[[...]]` span the scan passed through occurs in the returned
\* text, character for character.
C10_SpansUnchanged ==
    pc = "preprocessed" => \A k \in 1..Len(passed) : occursIn(passed[k], result)

(* obsidianPreprocessor: the image widths of the returned text *)

\* every character of t from index a up to, not including, index b is a digit
digitsBetween(t, a, b) == \A k \in a..(b - 1) : CharAt(t, k) \in Digits

\* t holds at index s an image construct whose alt text ends in "|" and digits
\* only and whose url is not empty: "![", an alt text free of "]", "|", one
\* digit or more, "](", a url free of ")", and ")"
widthImageAt(t, s) ==
    /\ Slice(t, s, s + 2) = "!["
    /\ \E p \in (s + 2)..(Len(t) - 1) :
        /\ CharAt(t, p) = "|"
        /\ \A k \in (s + 2)..(p - 1) : CharAt(t, k) # "]"
        /\ \E q \in (p + 2)..(Len(t) - 1) :
            /\ digitsBetween(t, p + 1, q)
            /\ Slice(t, q, q + 2) = "]("
            /\ CharAt(t, q + 2) \notin {"", ")"}
            /\ \E u \in (q + 3)..(Len(t) - 1) : CharAt(t, u) = ")"

\* C11: the text the preprocessor returns holds no image construct
\* "![alt|WIDTH](url)" whose dimension is a width alone.
C11_NoOnePartDimension ==
    pc = "preprocessed" => \A s \in 0..(Len(result) - 1) : ~widthImageAt(result, s)

\* t holds no "[[" that a later "]]" closes, so no wikilink or embed span
spanFree(t) ==
    \A a \in 0..(Len(t) - 1) :
        Slice(t, a, a + 2) = "[[" => IndexOf(t, "]]", a + 2) = -1

\* C12: for a text without spans, the second call of preprocess(preprocess(text))
\* returns what the first call returned.
C12_Idempotent ==
    (pc = "preprocessed" /\ previous # <<>> /\ spanFree(previous[1]))
        => result = previous[2]

(* obsidianPreprocessor: an embed whose file name carries an extension *)

\* p names a file with an extension: a "." inside its last segment, not first
hasExtension(p) ==
    /\ LastIndexOf(p, ".") > LastIndexOf(p, "/") + 1
    /\ LastIndexOf(p, ".") < Len(p) - 1

\* p with the extension of its file name stripped
withoutExtension(p) == IF hasExtension(p) THEN Slice(p, 0, LastIndexOf(p, ".")) ELSE p

\* the embed's path is no key of the index and the path less its extension is
\* the key of a single target
keyedWithoutExtension ==
    /\ embedEmitted
    /\ options.hasLinkmap
    /\ hasExtension(embed.info.path)
    /\ embed.info.path \notin Keys
    /\ withoutExtension(embed.info.path) \in Keys
    /\ options.linkmap[withoutExtension(embed.info.path)].kind = "string"

\* C13: an embed that names a file with an extension, when the index has no key
\* for the full name and has one for the name less its extension, is emitted
\* with that entry's target and the {.obsidian-embed} marker.
C13_ExtensionStrippedLookup ==
    keyedWithoutExtension
    => /\ occursIn(options.linkmap[withoutExtension(embed.info.path)].items[1],
                   embed.emitted)
       /\ EndsWith(embed.emitted, "{.obsidian-embed}")

(* totality *)

\* C14: no call of resolveLinkPath, of the preprocessor or of the wikilink rule
\* ends with an exception: whatever the text and the index, it returns.
C14_NoException == pc # "threw"

(* parseWikiLink *)

\* the character c occurs in s
hasChar(s, c) == \E k \in 1..Len(s) : SubSeq(s, k, k) = c

\* s less one trailing ".md", in any letter case
withoutMd(s) ==
    IF Len(s) >= 3 /\ SubSeq(s, Len(s) - 2, Len(s)) \in {".md", ".MD", ".Md", ".mD"}
    THEN SubSeq(s, 1, Len(s) - 3)
    ELSE s

\* parseWikiLink has returned for a raw text with neither "|" nor "#"
parsedPlain == pc = "parsed" /\ ~hasChar(rawText, "|") /\ ~hasChar(rawText, "#")

\* C15 as stated: for a raw text with neither "|" nor "#", path is the raw text
\* less a trailing .md (any letter case) and display equals path.
C15_PathIsRawLessMd ==
    parsedPlain
    => linkInfo.path = withoutMd(rawText) /\ linkInfo.display = linkInfo.path

\* C15: for a raw text with neither "|" nor "#", path is the trimmed raw text
\* less a trailing .md (any letter case) and display equals path.
C15_PathIsTrimmedRawLessMd ==
    parsedPlain
    => linkInfo.path = withoutMd(trim(rawText)) /\ linkInfo.display = linkInfo.path

\* a raw text with a leading space and an upper-case suffix has been parsed
C15_Witness ==
    /\ pc = "parsed"
    /\ rawText = " a.MD"
    /\ linkInfo.path = "a"
    /\ linkInfo.display = "a"

\* s is not empty and neither begins nor ends with a space
trimmedNonEmpty(s) ==
    /\ s # ""
    /\ SubSeq(s, 1, 1) # " "
    /\ SubSeq(s, Len(s), Len(s)) # " "

\* s is one digit or more
allDigits(s) == s # "" /\ \A k \in 1..Len(s) : SubSeq(s, k, k) \in Digits

\* s matches ^\d+(x\d+)?$
sizeText(s) ==
    \/ allDigits(s)
    \/ \E w \in 1..(Len(s) - 2) :
        /\ allDigits(SubSeq(s, 1, w))
        /\ SubSeq(s, w + 1, w + 1) = "x"
        /\ allDigits(SubSeq(s, w + 2, Len(s)))

\* t is P#A|D, its "#" at index h and its "|" at index b: P, A and D trimmed
\* and not empty, P free of "|" and "#" and not ending in .md, A and D free of
\* "|", D no size
decomposes(t, h, b) ==
    /\ h < b
    /\ CharAt(t, h) = "#"
    /\ CharAt(t, b) = "|"
    /\ \A k \in 0..(h - 1) : CharAt(t, k) \notin {"#", "|"}
    /\ \A k \in 0..(Len(t) - 1) : CharAt(t, k) = "|" => k = b
    /\ trimmedNonEmpty(Slice(t, 0, h))
    /\ trimmedNonEmpty(Slice(t, h + 1, b))
    /\ trimmedNonEmpty(SliceFrom(t, b + 1))
    /\ withoutMd(Slice(t, 0, h)) = Slice(t, 0, h)
    /\ ~sizeText(SliceFrom(t, b + 1))

\* the raw text has a "#" and none before its last "|"
hashOnlyAfterLastPipe(t) ==
    \E b \in 0..(Len(t) - 1) :
        /\ CharAt(t, b) = "|"
        /\ \A k \in (b + 1)..(Len(t) - 1) : CharAt(t, k) # "|"
        /\ \A k \in 0..(b - 1) : CharAt(t, k) # "#"
        /\ \E k \in (b + 1)..(Len(t) - 1) : CharAt(t, k) = "#"

\* C16: a raw text P#A|D is split at its last "|" and the part before that at
\* its first "#": path is P, anchor is A, display is D and there is no size; a
\* "#" that occurs only after the last "|" gives no anchor.
C16_LastPipeFirstHash ==
    pc = "parsed"
    => /\ \A h, b \in 0..(Len(rawText) - 1) :
            decomposes(rawText, h, b)
            => linkInfo = [path    |-> Slice(rawText, 0, h),
                           display |-> SliceFrom(rawText, b + 1),
                           anchor  |-> Slice(rawText, h + 1, b),
                           size    |-> ""]
       /\ hashOnlyAfterLastPipe(rawText) => linkInfo.anchor = ""

\* a raw text whose anchor and display both hold a "#" has been parsed
C16_Witness ==
    /\ pc = "parsed"
    /\ rawText = "a a#s#t|b#c"
    /\ decomposes(rawText, 3, 7)
    /\ linkInfo = [path |-> "a a", display |-> "b#c", anchor |-> "s#t", size |-> ""]

\* the display segment of t: the text after its last "|", trimmed; none when t
\* has no "|"
displaySegment(t) ==
    IF ~hasChar(t, "|") THEN ""
    ELSE trim(SliceFrom(t, 1 + CHOOSE b \in 0..(Len(t) - 1) :
                               /\ CharAt(t, b) = "|"
                               /\ \A k \in (b + 1)..(Len(t) - 1) : CharAt(t, k) # "|"))

\* C17: size is set exactly when the trimmed display segment matches
\* ^\d+(x\d+)?$; it is then that segment, and display is the path.
C17_SizeIffDisplayIsSize ==
    pc = "parsed"
    => /\ linkInfo.size # "" <=> sizeText(displaySegment(rawText))
       /\ linkInfo.size # ""
          => /\ linkInfo.size = displaySegment(rawText)
             /\ linkInfo.display = linkInfo.path

\* a raw text whose display segment is a width and a height between spaces
C17_Witness ==
    /\ pc = "parsed"
    /\ rawText = "a| 6x6 "
    /\ linkInfo.size = "6x6"
    /\ linkInfo.display = "a"

\* C18: the path parseWikiLink returns does not end in .md (any letter case)
\* and holds neither the "|" display separator nor the "#" anchor separator.
C18_PathUndecorated ==
    pc = "parsed"
    => /\ withoutMd(linkInfo.path) = linkInfo.path
       /\ ~hasChar(linkInfo.path, "|")
       /\ ~hasChar(linkInfo.path, "#")

-----------------------------------------------------------------------------
(* Properties of the tag rule, read off the state in which the rule has     *)
(* visited every child of the block token.                                  *)

\* a tag starts at index h of t: a "#" at the start of t or after whitespace,
\* with a character of the tag body after it
tagStart(t, h) ==
    /\ CharAt(t, h) = "#"
    /\ h = 0 \/ CharAt(t, h - 1) \in WhiteSpace
    /\ CharAt(t, h + 1) \in TagBodyChars

\* where the tag body that begins at index k of t ends
tagBodyEnd(t, k) ==
    CHOOSE j \in k..Len(t) :
        /\ \A n \in k..(j - 1) : CharAt(t, n) \in TagBodyChars
        /\ CharAt(t, j) \notin TagBodyChars

\* the first tag start of t at or after index from, -1 when there is none
nextTagStart(t, from) == firstOf({h \in from..(Len(t) - 1) : tagStart(t, h)})

\* the wrapped tag: span_open with the class and the data attribute, the text
\* "#body", span_close
wrappedTag(body) ==
    << [type |-> "span_open", tag |-> "span", nesting |-> 1, content |-> "",
        attrs |-> << <<"class", "obsidian-tag">>, <<"data-tag", body>> >>],
       [type |-> "text", tag |-> "", nesting |-> 0, content |-> "#" \o body,
        attrs |-> <<>>],
       [type |-> "span_close", tag |-> "span", nesting |-> -1, content |-> "",
        attrs |-> <<>>] >>

plainText(content) ==
    [type |-> "text", tag |-> "", nesting |-> 0, content |-> content, attrs |-> <<>>]

\* the tokens for the text of t from index `from` on, h its next tag start:
\* before each wrapped tag a plain text token with the text up to its "#",
\* which is left out when that text is empty unless emptyToo, and after the
\* last wrapped tag the rest of the text, if any
RECURSIVE tagTokensAt(_, _, _, _)
tagTokensAt(t, from, h, emptyToo) ==
    IF h = -1
    THEN IF from < Len(t) THEN <<plainText(SliceFrom(t, from))>> ELSE <<>>
    ELSE (IF h > from \/ emptyToo THEN <<plainText(Slice(t, from, h))>> ELSE <<>>)
         \o wrappedTag(Slice(t, h + 1, tagBodyEnd(t, h + 1)))
         \o tagTokensAt(t, tagBodyEnd(t, h + 1),
                        nextTagStart(t, tagBodyEnd(t, h + 1)), emptyToo)

\* the tokens for one child: a child that is no text, or a text without a tag,
\* stays as it is
tagTokensOf(token, emptyToo) ==
    IF token.type # "text" \/ nextTagStart(token.content, 0) = -1 THEN <<token>>
    ELSE tagTokensAt(token.content, 0, nextTagStart(token.content, 0), emptyToo)

RECURSIVE tagTokensOfAll(_, _, _)
tagTokensOfAll(tokenSeq, k, emptyToo) ==
    IF k > Len(tokenSeq) THEN <<>>
    ELSE tagTokensOf(tokenSeq[k], emptyToo) \o tagTokensOfAll(tokenSeq, k + 1, emptyToo)

\* the rule has visited every child of an inline token
tagsVisited ==
    /\ pc = "tags"
    /\ blockToken.type = "inline" /\ blockToken.hasChildren
    /\ child > Len(blockToken.children)

\* C19 as stated: for every text node the rule produces, per match and in
\* order, a plain text token with the text up to and including the matched
\* whitespace and then the wrapped tag: span_open with class obsidian-tag and
\* data-tag the body, the text "#body", span_close.
C19_TextThenWrappedTag ==
    tagsVisited => newChildren = tagTokensOfAll(blockToken.children, 1, TRUE)

\* C19: the same, the plain text token being produced only when its text is
\* not empty.
C19_WrappedTagPerMatch ==
    tagsVisited => newChildren = tagTokensOfAll(blockToken.children, 1, FALSE)

\* the text node "#t #t" has become two wrapped tags with a space between them
C19_Witness ==
    /\ tagsVisited
    /\ blockToken.children = <<plainText("#t #t")>>
    /\ newChildren = wrappedTag("t") \o <<plainText(" ")>> \o wrappedTag("t")

\* the contents of the tokens k..n of tokenSeq, one after the other
RECURSIVE contentsOf(_, _, _)
contentsOf(tokenSeq, k, n) ==
    IF k > n THEN "" ELSE tokenSeq[k].content \o contentsOf(tokenSeq, k + 1, n)

\* the rule has visited the one child of an inline token, a text node
textNodeVisited ==
    /\ tagsVisited
    /\ Len(blockToken.children) = 1
    /\ blockToken.children[1].type = "text"

\* the "#" at index h of t is the first character of t or follows whitespace
atStartOrAfterSpace(t, h) ==
    /\ CharAt(t, h) = "#"
    /\ h = 0 \/ CharAt(t, h - 1) \in WhiteSpace

\* C20: the tokens of a text node spell its text, and every wrapped tag stands
\* where a "#" is the first character of the node or follows whitespace: a "#"
\* after any other character starts no wrapped tag.
C20_NoTagAfterNonSpace ==
    textNodeVisited
    => /\ contentsOf(newChildren, 1, Len(newChildren)) = blockToken.children[1].content
       /\ \A k \in 1..Len(newChildren) :
            newChildren[k].type = "span_open"
            => atStartOrAfterSpace(blockToken.children[1].content,
                                   Len(contentsOf(newChildren, 1, k - 1)))

\* the text node "t#t t", its "#" after a letter, is left as it is
C20_Witness ==
    /\ textNodeVisited
    /\ blockToken.children[1].content = "t#t t"
    /\ newChildren = <<plainText("t#t t")>>

-----------------------------------------------------------------------------
(* obsidianPreprocessor: delimiters that are never closed *)

\* no "]]" begins at index k of the text or later
noClosingAfter(k) == \A j \in k..(Len(text) - 2) : Slice(text, j, j + 2) # "]]"

\* at index d of the text stands a "![[" or a "[[" that no "]]" closes
unterminatedAt(d) ==
    \/ Slice(text, d, d + 3) = "![[" /\ noClosingAfter(d + 3)
    \/ Slice(text, d, d + 2) = "[[" /\ noClosingAfter(d + 2)

\* C24: when no "]]" follows the "![[" or "[[" at the scan cursor, the step
\* copies one character, moves the cursor by one and emits no embed; so the
\* result of the scan ends with the text from such a delimiter to the cursor.
C24_UnterminatedCopied ==
    /\ [][(pc = "scan" /\ i < Len(text) /\ unterminatedAt(i))
           => /\ result' = result \o CharAt(text, i)
              /\ i' = i + 1
              /\ embed' = embed
              /\ pc' = "scan"]_vars
    /\ [](pc = "scan"
           => \A d \in 0..i : unterminatedAt(d) => EndsWith(result, Slice(text, d, i)))

\* the scan has copied "![[a", whose "![[" is never closed, to its end
C24_Witness ==
    /\ pc = "scan"
    /\ text = "![[a"
    /\ i = 4
    /\ result = "![[a"
    /\ embed = NoEmbed

-----------------------------------------------------------------------------
(* The wikilink rule: what a match pushes and what a failure leaves alone *)

\* the rule has returned true
ruleMatched == pc = "ruled" /\ ret

\* C25: a match pushes three tokens, link_open, text and link_close: the href
\* of link_open is the encoded resolved path, followed by "#" and the encoded
\* anchor exactly when an anchor was parsed, the text is the display text, and
\* the cursor stands just past the closing "]]".
C25_ThreeTokens ==
    ruleMatched
    => /\ Len(tokens) = 3
       /\ tokens[1] = [type |-> "link_open", tag |-> "a", nesting |-> 1, content |-> "",
                       href |-> wikiResolvePath(ruleInfo.path, options).value
                                \o anchorSuffix]
       /\ tokens[2] = [type |-> "text", tag |-> "", nesting |-> 0, href |-> "",
                       content |-> ruleInfo.display]
       /\ tokens[3] = [type |-> "link_close", tag |-> "a", nesting |-> -1, href |-> "",
                       content |-> ""]
       /\ pos = IndexOf(src, "]]", start + 2) + 2

\* the rule has matched a link with an anchor
C25_Witness ==
    /\ ruleMatched
    /\ src = "[[a#s]]"
    /\ ~options.hasLinkmap /\ options.basePath = ""
    /\ tokens[1].href = "/attachments/a#s"
    /\ tokens[2].content = "a"
    /\ pos = 7

\* the rule was run where it fails: the text at the cursor is not "[[", or no
\* "]]" follows it, or the run is silent
ruleMustFail ==
    \/ SubSeq(src, start + 1, Min(start + 2, Len(src))) # "[["
    \/ \A j \in (start + 2)..(Len(src) - 2) : SubSeq(src, j + 1, j + 2) # "]]"
    \/ silent

\* C26: a run of the rule that fails returns false, has pushed no token and
\* leaves the cursor where it was.
C26_FailureLeavesState ==
    (pc = "ruled" /\ ruleMustFail) => ~ret /\ tokens = <<>> /\ pos = start

\* a silent run on a complete link, the cursor on its "[["
C26_Witness ==
    /\ pc = "ruled"
    /\ src = "a[[a]]"
    /\ start = 1
    /\ silent
    /\ ~ret /\ tokens = <<>> /\ pos = 1

\* the rule is about to run the pattern on a text node for the first time
textNodeBegins ==
    /\ pc = "tags"
    /\ blockToken.type = "inline" /\ blockToken.hasChildren
    /\ child <= Len(blockToken.children)
    /\ blockToken.children[child].type = "text"
    /\ ~hasMatch

\* C27: between documents and whenever the processing of a text node begins,
\* the scan position of the pattern is 0; the tokens of a text node are those
\* its content alone gives, whatever was processed before.
C27_PatternPositionAtStart ==
    /\ (pc = "idle" \/ textNodeBegins) => patternLastIndex = 0
    /\ textNodeVisited => newChildren = tagTokensOf(blockToken.children[1], FALSE)

\* a second text node begins after the first one has matched
C27_Witness ==
    /\ textNodeBegins
    /\ child = 3
    /\ blockToken.children[1].content = "#t"
    /\ newChildren = wrappedTag("t") \o <<blockToken.children[2]>>
    /\ patternLastIndex = 0

-----------------------------------------------------------------------------
(* obsidianPreprocessor: the destination of an embed is site-root-relative *)

\* t is an http:// or https:// URL, in any letter case
httpUrl(t) ==
    \/ toLowerCase(SubSeq(t, 1, Min(7, Len(t)))) = "http://"
    \/ toLowerCase(SubSeq(t, 1, Min(8, Len(t)))) = "https://"

\* C28: the destination emitted for an embed whose resolved target is no
\* http(s) URL begins with "/".
C28_DestinationRootRelative ==
    (embedEmitted /\ ~httpUrl(embedTarget)) => SubSeq(embed.encodedHref, 1, 1) = "/"

-----------------------------------------------------------------------------
(* resolveLinkPath: the suffix rule and the segments of a candidate *)

\* the path, up to a leading "/", is the candidate c or the end of c from a "/"
onSegmentBoundary(c) ==
    \/ c \in {pathLessSlash, "/" \o pathLessSlash}
    \/ EndsWith(c, "/" \o pathLessSlash)

\* C29: a candidate picked by the suffix rule ends with the path on a "/"
\* segment boundary, and a candidate that equals the path is picked before a
\* longer one that ends with it.
C29_SuffixOnSegmentBoundary ==
    (/\ pc = "resolved"
     /\ path \notin Keys
     /\ pathLastSegment \in Keys
     /\ Len(segmentEntry) > 1
     /\ suffixMatches # {})
    => /\ onSegmentBoundary(resolution.resolved)
       /\ (\E k \in 1..Len(segmentEntry) :
               segmentEntry[k] \in {pathLessSlash, "/" \o pathLessSlash})
          => resolution.resolved \in {pathLessSlash, "/" \o pathLessSlash}

-----------------------------------------------------------------------------
(* The tag rule preserves the text of a block *)

\* the contents of the text tokens of tokenSeq from position k on, in order
RECURSIVE textOf(_, _)
textOf(tokenSeq, k) ==
    IF k > Len(tokenSeq) THEN ""
    ELSE (IF tokenSeq[k].type = "text" THEN tokenSeq[k].content ELSE "")
         \o textOf(tokenSeq, k + 1)

hasSpanOpen(tokenSeq) == \E k \in 1..Len(tokenSeq) : tokenSeq[k].type = "span_open"

\* C30: the text tokens the rule has built for a block spell the text of the
\* block's text tokens; every span_open is followed by one text token and its
\* span_close; a block without a tag keeps its children, and a block with one
\* gets the children built.
C30_TextPreserved ==
    /\ [](tagsVisited
           => /\ textOf(newChildren, 1) = textOf(blockToken.children, 1)
              /\ \A k \in 1..Len(newChildren) :
                    newChildren[k].type = "span_open"
                    => /\ k + 2 <= Len(newChildren)
                       /\ newChildren[k + 1].type = "text"
                       /\ newChildren[k + 2].type = "span_close"
              /\ ~hasSpanOpen(newChildren) => newChildren = blockToken.children)
    /\ [][tagsVisited
           => blockToken'.children =
                IF hasSpanOpen(newChildren) THEN newChildren ELSE blockToken.children]_vars

\* a block of two text nodes, the second with a tag between other text
C30_Witness ==
    /\ tagsVisited
    /\ blockToken.children = <<plainText("t!"), plainText(" #t!")>>
    /\ newChildren = <<plainText("t!"), plainText(" ")>> \o wrappedTag("t")
                     \o <<plainText("!")>>

-----------------------------------------------------------------------------
(* The wikilink rule and the preprocessor encode the same target alike *)

\* C22: the href the rule builds for a link without an anchor is the
\* destination the preprocessor emits for the embed of the same content.
C22_SameEncoding ==
    (ruleMatched /\ ruleInfo.anchor = "")
    => tokens[1].href = embedRewrite(ruleContent, options).encodedHref

-----------------------------------------------------------------------------
(* The embed plugin: rendering a link_open token *)

\* C21: rendering a link_open token leaves its class attribute as it was,
\* with the marker obsidian-embed-file or without it, however often the token
\* is rendered.
C21_RenderLeavesClass ==
    [][(pc = "render" /\ pc' = "render") => linkOpen' = linkOpen]_vars

-----------------------------------------------------------------------------
(* The order in which the registered rules run on a document *)

\* the position of the rule in the trace, 0 when it has not run
ranAt(rule) ==
    IF \E k \in 1..Len(trace) : trace[k] = rule
    THEN CHOOSE k \in 1..Len(trace) : trace[k] = rule
    ELSE 0

\* the position of the plugin among the plugins given to md.use, 0 when it
\* has not been given
usedAt(plugin) ==
    IF \E k \in 1..Len(used) : used[k] = plugin
    THEN CHOOSE k \in 1..Len(used) : used[k] = plugin
    ELSE 0

\* C23: the preprocessor, the wikilink rule, the tag rule and the embed
\* enhancement are registered in this order, and on every document the source
\* rewrite runs before normalization and tokenization, the wikilink rule runs
\* in the inline chain before the native link rule, the tag rule runs after
\* the whole inline chain, and the embed enhancement runs at rendering, after
\* every rule of the core chain.
C23_RulesRunInOrder ==
    /\ pc # "new"
       => /\ usedAt("usePreprocessor") = 1
          /\ usedAt("obsidianWikiLink") = 2
          /\ usedAt("obsidianTags") = 3
          /\ usedAt("obsidianEmbed") = 4
    /\ pc = "rendered"
       => /\ 0 < ranAt("obsidian_preprocessor")
          /\ ranAt("obsidian_preprocessor") < ranAt("normalize")
          /\ ranAt("normalize") < ranAt("block")
          /\ ranAt("block") < ranAt("inline")
          /\ ranAt("inline") < ranAt("obsidian_wikilink")
          /\ ranAt("obsidian_wikilink") < ranAt("link")
          /\ \A k \in 1..Len(inlineRuler) : ranAt(inlineRuler[k]) < ranAt("obsidian_tags")
          /\ ranAt("obsidian_tags") < ranAt("render")
          /\ ranAt("obsidian_embed") = Len(trace)
          /\ ranAt("render") = Len(trace) - 1

\* a document has been rendered by the engine with every plugin registered
C23_Witness ==
    /\ pc = "rendered"
    /\ Len(used) = 11
    /\ trace = <<"obsidian_preprocessor", "normalize", "block", "inline",
                 "text", "linkify", "newline", "escape", "math_inline", "backticks",
                 "strikethrough", "mark", "spoiler", "img_size", "emphasis",
                 "obsidian_wikilink", "link", "image", "autolink", "html_inline",
                 "entity",
                 "github-task-lists", "obsidian_tags", "attrs", "linkify",
                 "replacements", "smartquotes", "text_join",
                 "render", "obsidian_embed">>

====
